---------------------------- MODULE Spec2Model ----------------------------
(***************************************************************************)
(* certstream-server: certstream/webserver.py.                             *)
(*                                                                         *)
(* One asyncio event loop runs the multiplexer task (mux_ctl_stream), the  *)
(* heartbeat task (ws_heartbeats) and one handler task per request.  Tasks *)
(* interleave only at an await that really suspends, so every action below *)
(* is the code between two suspension points.  asyncio.Queue() is          *)
(* unbounded: "await queue.put(x)" never suspends, hence a whole broadcast *)
(* loop is one step.                                                       *)
(***************************************************************************)
EXTENDS Integers, Sequences, FiniteSets, TLC

(* ------------------------------ bounds -------------------------------- *)
\* live websocket sessions (root_handler tasks) a behaviour of Spec may start
MaxSessions == 2
\* records the upstream feed yields in Spec
MaxRecords == 1
\* last clock value of Spec
MaxTime == 10
\* records the upstream feed yields in SpecReplay
MaxReplayRecords == 27
\* records the upstream feed yields in SpecDev
MaxDevRecords == 3
\* replay-only sessions (dev_handler tasks) a behaviour of SpecDev may start
MaxDevSessions == 2
\* live websocket sessions a behaviour of SpecStream may start
MaxStreamSessions == 1
\* records the upstream feed yields in SpecStream
MaxStreamRecords == 2
\* last clock value of SpecStream
MaxStreamTime == 25
\* the longest active_sockets SpecRegistry starts from or builds
MaxRegistry == 2

(* ------------------------- program constants -------------------------- *)
\* collections.deque(maxlen=25)
RecentlySeenMaxlen == 25
\* asyncio.sleep(10)
HeartbeatSleep == 10

\* the clock step of SpecStream: time.time() is read twice a heartbeat period
StreamTickStep == HeartbeatSleep \div 2

\* the identities of the live sessions (and of their queues)
Sessions == 1..(IF MaxSessions > MaxStreamSessions THEN MaxSessions
                ELSE MaxStreamSessions)
DevSessions == 1..MaxDevSessions

\* self.valid_channels
valid_channels == <<"default", "dns-only", "leaf-only">>

\* "x in list"
InList(x, list) == \E i \in 1..Len(list) : list[i] = x

\* the channel query parameters and remote addresses requests are drawn from
RequestedChannels == {"default", "bogus"}
RemoteAddresses == {"198.51.100.7"}

VARIABLES
    now,            \* time.time(), in whole time-units
    hb_wake,        \* the time at which ws_heartbeats' asyncio.sleep returns
    nrecords,       \* records pulled from watcher.stream so far
    recently_seen,  \* self.recently_seen, leftmost (oldest) first
    active_sockets, \* self.active_sockets
    queue,          \* the asyncio.Queue of each session, by queue identity
    pc,             \* where each root_handler task is suspended
    exception,      \* the exception a root_handler task ended with
    request,        \* the request of each root_handler task
    websocket_info, \* root_handler's local websocket_info
    message_json,   \* root_handler's local message_json while in send_str
    written,        \* the frames the transport of each session has taken
    joined,         \* nrecords when the session registered
    joined_hb,      \* hb_wake when the session registered
    enqueued,       \* every message put on the session's queue, in order
    dev_pc,         \* where each dev_handler task is suspended
    dev_exception,  \* the exception a dev_handler task ended with
    dev_it,         \* the deque iterator of dev_handler's for loop
    dev_json,       \* dev_handler's local message_json while in send_str
    dev_written,    \* the frames the transport of each dev session has taken
    dev_start,      \* recently_seen when the dev session's for loop began
    http_response,  \* the last response of latest.json / example.json / stats
    mux_stream,     \* self.mux_stream, the task running mux_ctl_stream
    removed         \* the outcome of the last active_sockets.remove(x)

live_vars == <<active_sockets, queue, pc, exception, request, websocket_info,
               message_json, written, joined, joined_hb, enqueued>>
dev_vars == <<dev_pc, dev_exception, dev_it, dev_json, dev_written, dev_start>>
vars == <<now, hb_wake, nrecords, recently_seen, live_vars, dev_vars,
          http_response, mux_stream, removed>>

(* ------------------------------ values -------------------------------- *)
\* the namedtuple WebsocketClientInfo; the queue field is the identity of the
\* asyncio.Queue object (asyncio.Queue defines no __eq__)
WebsocketClientInfo(ip, q, t, ch) ==
    [external_ip |-> ip, queue |-> q, connection_time |-> t, channel |-> ch]

\* the value of the local websocket_info before it is assigned
NoInfo == WebsocketClientInfo("", 0, -1, "")
NoRequest == [external_ip |-> "", channel |-> ""]
NoJson == <<>>
NoIterator == [state |-> -1, counter |-> 0, index |-> 0]
NoResponse == [endpoint |-> "", body |-> <<>>]
NoRemove == [item |-> NoInfo, raised |-> "None"]

\* an asyncio task that has not finished, and one whose coroutine raised
Pending == [done |-> FALSE, exception |-> "None"]
Failed(exc) == [done |-> TRUE, exception |-> exc]

\* the data_packet mux_ctl_stream builds around a record
DataPacket(cert_data) ==
    [message_type |-> "certificate_update", data |-> cert_data]

\* the dictionary ws_heartbeats enqueues
HeartbeatPacket(timestamp) ==
    [message_type |-> "heartbeat", timestamp |-> timestamp]

\* json.dumps raises TypeError on a value that is not JSON serializable;
\* a heartbeat holds a string and a float only
JsonSerializable(message) ==
    IF message.message_type = "heartbeat" THEN TRUE
    ELSE message.data.serializable

\* json.dumps(message): the text of the object, its keys in insertion order
json_dumps(message) ==
    IF message.message_type = "heartbeat"
    THEN <<"message_type", "heartbeat", "timestamp", message.timestamp>>
    ELSE <<"message_type", "certificate_update", "data", message.data.seq>>

(* ------------------------------ deque --------------------------------- *)
\* a deque without maxlen: append never drops an item
DequeAppend_unbounded(dq, x) == Append(dq, x)

\* deque.append on a deque with maxlen: a full deque drops its leftmost item
DequeAppend(dq, x) ==
    IF Len(dq) >= RecentlySeenMaxlen THEN Tail(dq) \o <<x>> ELSE Append(dq, x)

\* the deque's mutation counter ("state"): append adds one, and one more
\* for the popleft that trims a full deque
DequeState ==
    nrecords + (IF nrecords > RecentlySeenMaxlen
                THEN nrecords - RecentlySeenMaxlen ELSE 0)

(* ------------------------------ lists --------------------------------- *)
\* list.remove(x) on items that compare by address, connect time and
\* channel alone, as tuples without the queue (or with queues that compare
\* by content) would
RECURSIVE ListRemove_same_client(_, _)
ListRemove_same_client(list, x) ==
    IF list = <<>> THEN <<>>
    ELSE IF /\ Head(list).external_ip = x.external_ip
            /\ Head(list).connection_time = x.connection_time
            /\ Head(list).channel = x.channel
    THEN Tail(list)
    ELSE <<Head(list)>> \o ListRemove_same_client(Tail(list), x)

\* list.remove(x): drops the first item equal to x
RECURSIVE ListRemove(_, _)
ListRemove(list, x) ==
    IF list = <<>> THEN <<>>
    ELSE IF Head(list) = x THEN Tail(list)
    ELSE <<Head(list)>> \o ListRemove(Tail(list), x)

\* a broadcast that gives records to the clients of channel "default" only
RECURSIVE PutAll_default_only(_, _, _, _)
PutAll_default_only(queues, clients, i, packet) ==
    IF i > Len(clients) THEN queues
    ELSE IF /\ packet.message_type = "certificate_update"
            /\ clients[i].channel # "default"
    THEN PutAll_default_only(queues, clients, i + 1, packet)
    ELSE PutAll_default_only(
            [queues EXCEPT ![clients[i].queue] = Append(@, packet)],
            clients, i + 1, packet)

\* a broadcast whose iteration misses every second client, as a for loop
\* over a list does when the item before is removed under it
RECURSIVE PutAll_every_other(_, _, _, _)
PutAll_every_other(queues, clients, i, packet) ==
    IF i > Len(clients) THEN queues
    ELSE PutAll_every_other(
            [queues EXCEPT ![clients[i].queue] = Append(@, packet)],
            clients, i + 2, packet)

\* list.remove(x) raises ValueError when no item of the list equals x
ListRemoveRaises(list, x) == ~InList(x, list)

\* "for client in clients: await client.queue.put(packet)", from item i on;
\* put on an unbounded queue appends and returns without suspending
RECURSIVE PutAll(_, _, _, _)
PutAll(queues, clients, i, packet) ==
    IF i > Len(clients) THEN queues
    ELSE PutAll([queues EXCEPT ![clients[i].queue] = Append(@, packet)],
                clients, i + 1, packet)

Init ==
    /\ now = 0
    /\ hb_wake = HeartbeatSleep
    /\ nrecords = 0
    /\ recently_seen = <<>>
    /\ active_sockets = <<>>
    /\ queue = [s \in Sessions |-> <<>>]
    /\ pc = [s \in Sessions |-> "idle"]
    /\ exception = [s \in Sessions |-> "None"]
    /\ request = [s \in Sessions |-> NoRequest]
    /\ websocket_info = [s \in Sessions |-> NoInfo]
    /\ message_json = [s \in Sessions |-> NoJson]
    /\ written = [s \in Sessions |-> <<>>]
    /\ joined = [s \in Sessions |-> 0]
    /\ joined_hb = [s \in Sessions |-> 0]
    /\ enqueued = [s \in Sessions |-> <<>>]
    /\ dev_pc = [d \in DevSessions |-> "idle"]
    /\ dev_exception = [d \in DevSessions |-> "None"]
    /\ dev_it = [d \in DevSessions |-> NoIterator]
    /\ dev_json = [d \in DevSessions |-> NoJson]
    /\ dev_written = [d \in DevSessions |-> <<>>]
    /\ dev_start = [d \in DevSessions |-> <<>>]
    /\ http_response = NoResponse
    /\ mux_stream = Pending
    /\ removed = NoRemove

(* --------------------------- mux_ctl_stream --------------------------- *)
\* mux_ctl_stream over queues made with asyncio.Queue(maxsize=1): put waits
\* while the queue is full, so the pass is held up until every client's
\* queue has room
mux_ctl_stream_bounded(maxRecords, payloads) ==
    /\ ~mux_stream.done
    /\ nrecords < maxRecords
    /\ \A i \in 1..Len(active_sockets) :
          Len(queue[active_sockets[i].queue]) < 1
    /\ \E serializable \in payloads :
         LET cert_data == [seq |-> nrecords + 1, serializable |-> serializable]
             data_packet == DataPacket(cert_data)
         IN /\ nrecords' = nrecords + 1
            /\ recently_seen' = DequeAppend(recently_seen, data_packet)
            /\ queue' = PutAll(queue, active_sockets, 1, data_packet)
            /\ enqueued' = PutAll(enqueued, active_sockets, 1, data_packet)
    /\ UNCHANGED <<now, hb_wake, active_sockets, pc, exception, request,
                   websocket_info, message_json, written, joined, joined_hb,
                   dev_vars, http_response, mux_stream, removed>>

\* one pass of the while loop: stream.get() returns the next record, which
\* is wrapped, appended to recently_seen and put on every client's queue
mux_ctl_stream(maxRecords, payloads) ==
    /\ ~mux_stream.done
    /\ nrecords < maxRecords
    /\ \E serializable \in payloads :
         LET cert_data == [seq |-> nrecords + 1, serializable |-> serializable]
             data_packet == DataPacket(cert_data)
         IN /\ nrecords' = nrecords + 1
            /\ recently_seen' = DequeAppend(recently_seen, data_packet)
            /\ queue' = PutAll(queue, active_sockets, 1, data_packet)
            /\ enqueued' = PutAll(enqueued, active_sockets, 1, data_packet)
    /\ UNCHANGED <<now, hb_wake, active_sockets, pc, exception, request,
                   websocket_info, message_json, written, joined, joined_hb,
                   dev_vars, http_response, mux_stream, removed>>

\* mux_ctl_stream that ends its loop quietly when stream.get() raises
mux_ctl_stream_get_raises_returns ==
    /\ ~mux_stream.done
    /\ mux_stream' = [done |-> TRUE, exception |-> "None"]
    /\ UNCHANGED <<now, hb_wake, nrecords, recently_seen, live_vars, dev_vars,
                   http_response, removed>>

\* "await self.watcher.stream.get()" raises: nothing in mux_ctl_stream
\* catches it, so the coroutine ends and the task self.mux_stream holds the
\* exception
mux_ctl_stream_get_raises ==
    /\ ~mux_stream.done
    /\ mux_stream' = Failed("Exception")
    /\ UNCHANGED <<now, hb_wake, nrecords, recently_seen, live_vars, dev_vars,
                   http_response, removed>>

(* ---------------------------- ws_heartbeats --------------------------- *)
\* ws_heartbeats without its while loop: one round, then the task returns
ws_heartbeats_once ==
    /\ now >= hb_wake
    /\ LET timestamp == now
       IN /\ queue' = PutAll(queue, active_sockets, 1,
                            HeartbeatPacket(timestamp))
          /\ enqueued' = PutAll(enqueued, active_sockets, 1,
                               HeartbeatPacket(timestamp))
    /\ hb_wake' = now + HeartbeatSleep * HeartbeatSleep
    /\ UNCHANGED <<now, nrecords, recently_seen, active_sockets, pc, exception,
                   request, websocket_info, message_json, written, joined,
                   joined_hb, dev_vars, http_response, mux_stream, removed>>

\* asyncio.sleep(10) returns: one heartbeat to every client, then sleep again
ws_heartbeats ==
    /\ now >= hb_wake
    /\ LET timestamp == now
       IN /\ queue' = PutAll(queue, active_sockets, 1,
                            HeartbeatPacket(timestamp))
          /\ enqueued' = PutAll(enqueued, active_sockets, 1,
                               HeartbeatPacket(timestamp))
    /\ hb_wake' = now + HeartbeatSleep
    /\ UNCHANGED <<now, nrecords, recently_seen, active_sockets, pc, exception,
                   request, websocket_info, message_json, written, joined,
                   joined_hb, dev_vars, http_response, mux_stream, removed>>

\* the clock advances by step time-units; a due timer runs first
Tick(maxTime, step) ==
    /\ now + step <= maxTime
    /\ now + step <= hb_wake
    /\ now' = now + step
    /\ UNCHANGED <<hb_wake, nrecords, recently_seen, live_vars, dev_vars,
                   http_response, mux_stream, removed>>

(* --------------------------- active_sockets --------------------------- *)
\* the statement self.active_sockets.append(x)
active_sockets_append(x) ==
    /\ Len(active_sockets) < MaxRegistry
    /\ ~InList(x, active_sockets)
    /\ active_sockets' = Append(active_sockets, x)
    /\ UNCHANGED <<now, hb_wake, nrecords, recently_seen, queue, pc,
                   exception, request, websocket_info, message_json, written,
                   joined, joined_hb, enqueued, dev_vars, http_response,
                   mux_stream, removed>>

\* the statement self.active_sockets.remove(x)
active_sockets_remove(x) ==
    /\ IF ListRemoveRaises(active_sockets, x)
       THEN /\ removed' = [item |-> x, raised |-> "ValueError"]
            /\ UNCHANGED active_sockets
       ELSE /\ removed' = [item |-> x, raised |-> "None"]
            /\ active_sockets' = ListRemove(active_sockets, x)
    /\ UNCHANGED <<now, hb_wake, nrecords, recently_seen, queue, pc,
                   exception, request, websocket_info, message_json, written,
                   joined, joined_hb, enqueued, dev_vars, http_response,
                   mux_stream>>

(* ---------------------------- root_handler ---------------------------- *)
\* list.remove raises ValueError when no item equals x
RemoveRaises(s) == ~InList(websocket_info[s], active_sockets)

\* a finally clause that empties active_sockets
finally_remove_all(s) ==
    /\ active_sockets' = <<>>
    /\ queue' = [queue EXCEPT ![s] = <<>>]
    /\ websocket_info' = [websocket_info EXCEPT ![s] = NoInfo]
    /\ message_json' = [message_json EXCEPT ![s] = NoJson]
    /\ written' = [written EXCEPT ![s] = <<>>]
    /\ joined' = [joined EXCEPT ![s] = 0]
    /\ joined_hb' = [joined_hb EXCEPT ![s] = 0]
    /\ enqueued' = [enqueued EXCEPT ![s] = <<>>]

\* "finally: self.active_sockets.remove(websocket_info)".  Nothing reads the
\* handler's queue, websocket_info or transport once the loop is left, so
\* they are released here.
finally_remove(s) ==
    /\ active_sockets' = ListRemove(active_sockets, websocket_info[s])
    /\ queue' = [queue EXCEPT ![s] = <<>>]
    /\ websocket_info' = [websocket_info EXCEPT ![s] = NoInfo]
    /\ message_json' = [message_json EXCEPT ![s] = NoJson]
    /\ written' = [written EXCEPT ![s] = <<>>]
    /\ joined' = [joined EXCEPT ![s] = 0]
    /\ joined_hb' = [joined_hb EXCEPT ![s] = 0]
    /\ enqueued' = [enqueued EXCEPT ![s] = <<>>]

\* root_handler without the valid_channels test
root_handler_request_unchecked(s, addresses, channels) ==
    /\ pc[s] = "idle"
    /\ s > 1 => pc[s - 1] # "idle"
    /\ \E ip \in addresses, requested_channel \in channels :
         request' = [request EXCEPT ![s] =
            [external_ip |-> ip, channel |-> requested_channel]]
    /\ pc' = [pc EXCEPT ![s] = "prepare"]
    /\ UNCHANGED <<now, hb_wake, nrecords, recently_seen, active_sockets,
                   queue, exception, websocket_info, message_json, written,
                   joined, joined_hb, enqueued, dev_vars, http_response,
                   mux_stream, removed>>

\* a websocket request arrives: the channel is validated before anything
\* else is done (the static-file branch of the handler is not modelled)
root_handler_request(s, addresses, channels) ==
    /\ pc[s] = "idle"
    /\ s > 1 => pc[s - 1] # "idle"
    /\ \E ip \in addresses, requested_channel \in channels :
         /\ request' = [request EXCEPT ![s] =
                [external_ip |-> ip, channel |-> requested_channel]]
         /\ IF ~InList(requested_channel, valid_channels)
            THEN /\ pc' = [pc EXCEPT ![s] = "raised"]
                 /\ exception' = [exception EXCEPT ![s] = "HTTPBadRequest"]
            ELSE /\ pc' = [pc EXCEPT ![s] = "prepare"]
                 /\ UNCHANGED exception
    /\ UNCHANGED <<now, hb_wake, nrecords, recently_seen, active_sockets,
                   queue, websocket_info, message_json, written, joined,
                   joined_hb, enqueued, dev_vars, http_response, mux_stream,
                   removed>>

\* root_handler that starts a new client's queue with the replay buffer
root_handler_prepared_replays(s) ==
    /\ pc[s] = "prepare"
    /\ queue' = [queue EXCEPT ![s] = recently_seen]
    /\ LET info == WebsocketClientInfo(request[s].external_ip, s, now,
                                       request[s].channel)
       IN /\ websocket_info' = [websocket_info EXCEPT ![s] = info]
          /\ active_sockets' = Append(active_sockets, info)
    /\ joined' = [joined EXCEPT ![s] = nrecords]
    /\ joined_hb' = [joined_hb EXCEPT ![s] = hb_wake]
    /\ enqueued' = [enqueued EXCEPT ![s] = <<>>]
    /\ pc' = [pc EXCEPT ![s] = "get"]
    /\ UNCHANGED <<now, hb_wake, nrecords, recently_seen, exception, request,
                   message_json, written, dev_vars, http_response, mux_stream,
                   removed>>

\* ws.prepare returns: the queue and websocket_info are created, the client
\* is appended to active_sockets and the loop blocks in client_queue.get()
root_handler_prepared(s) ==
    /\ pc[s] = "prepare"
    /\ queue' = [queue EXCEPT ![s] = <<>>]
    /\ LET info == WebsocketClientInfo(request[s].external_ip, s, now,
                                       request[s].channel)
       IN /\ websocket_info' = [websocket_info EXCEPT ![s] = info]
          /\ active_sockets' = Append(active_sockets, info)
    /\ joined' = [joined EXCEPT ![s] = nrecords]
    /\ joined_hb' = [joined_hb EXCEPT ![s] = hb_wake]
    /\ enqueued' = [enqueued EXCEPT ![s] = <<>>]
    /\ pc' = [pc EXCEPT ![s] = "get"]
    /\ UNCHANGED <<now, hb_wake, nrecords, recently_seen, exception, request,
                   message_json, written, dev_vars, http_response, mux_stream,
                   removed>>

\* root_handler on an asyncio.LifoQueue: get() returns the newest message
root_handler_get_lifo(s) ==
    /\ pc[s] = "get"
    /\ queue[s] # <<>>
    /\ LET message == queue[s][Len(queue[s])]
       IN IF JsonSerializable(message)
          THEN /\ queue' = [queue EXCEPT ![s] = SubSeq(@, 1, Len(@) - 1)]
               /\ message_json' = [message_json EXCEPT ![s] =
                                      json_dumps(message)]
               /\ pc' = [pc EXCEPT ![s] = "send"]
               /\ UNCHANGED <<active_sockets, exception, websocket_info,
                              written, joined, joined_hb, enqueued>>
          ELSE /\ finally_remove(s)
               /\ pc' = [pc EXCEPT ![s] = "raised"]
               /\ exception' = [exception EXCEPT ![s] =
                     IF RemoveRaises(s) THEN "ValueError" ELSE "TypeError"]
    /\ UNCHANGED <<now, hb_wake, nrecords, recently_seen, request, dev_vars,
                   http_response, mux_stream, removed>>

\* client_queue.get() returns the oldest message; json.dumps either raises
\* TypeError (to the finally clause) or yields the text send_str starts on
root_handler_get(s) ==
    /\ pc[s] = "get"
    /\ queue[s] # <<>>
    /\ LET message == Head(queue[s])
       IN IF JsonSerializable(message)
          THEN /\ queue' = [queue EXCEPT ![s] = Tail(@)]
               /\ message_json' = [message_json EXCEPT ![s] =
                                      json_dumps(message)]
               /\ pc' = [pc EXCEPT ![s] = "send"]
               /\ UNCHANGED <<active_sockets, exception, websocket_info,
                              written, joined, joined_hb, enqueued>>
          ELSE /\ finally_remove(s)
               /\ pc' = [pc EXCEPT ![s] = "raised"]
               /\ exception' = [exception EXCEPT ![s] =
                     IF RemoveRaises(s) THEN "ValueError" ELSE "TypeError"]
    /\ UNCHANGED <<now, hb_wake, nrecords, recently_seen, request, dev_vars,
                   http_response, mux_stream, removed>>

\* ws.send_str returns: the frame is with the transport, the loop goes on
root_handler_sent(s) ==
    /\ pc[s] = "send"
    /\ written' = [written EXCEPT ![s] = Append(@, message_json[s])]
    /\ message_json' = [message_json EXCEPT ![s] = NoJson]
    /\ pc' = [pc EXCEPT ![s] = "get"]
    /\ UNCHANGED <<now, hb_wake, nrecords, recently_seen, active_sockets,
                   queue, exception, request, websocket_info, joined,
                   joined_hb, enqueued, dev_vars, http_response, mux_stream,
                   removed>>

\* root_handler without its finally clause: a failed write ends the task
\* with the client still in active_sockets
root_handler_send_fails_no_finally(s) ==
    /\ pc[s] = "send"
    /\ pc' = [pc EXCEPT ![s] = "raised"]
    /\ exception' = [exception EXCEPT ![s] = "ConnectionResetError"]
    /\ UNCHANGED <<now, hb_wake, nrecords, recently_seen, active_sockets,
                   queue, request, websocket_info, message_json, written,
                   joined, joined_hb, enqueued, dev_vars, http_response,
                   mux_stream, removed>>

\* root_handler that answers a failed write by writing the message again
root_handler_send_fails_retries(s) ==
    /\ pc[s] = "send"
    /\ Len(written[s]) < Len(enqueued[s])
    /\ written' = [written EXCEPT ![s] = Append(@, message_json[s])]
    /\ UNCHANGED <<now, hb_wake, nrecords, recently_seen, active_sockets,
                   queue, pc, exception, request, websocket_info,
                   message_json, joined, joined_hb, enqueued, dev_vars,
                   http_response, mux_stream, removed>>

\* ws.send_str raises (the transport is gone): only the finally clause runs
root_handler_send_fails(s) ==
    /\ pc[s] = "send"
    /\ finally_remove(s)
    /\ pc' = [pc EXCEPT ![s] = "raised"]
    /\ exception' = [exception EXCEPT ![s] =
          IF RemoveRaises(s) THEN "ValueError" ELSE "ConnectionResetError"]
    /\ UNCHANGED <<now, hb_wake, nrecords, recently_seen, request, dev_vars,
                   http_response, mux_stream, removed>>

\* root_handler whose cancellation skips the removal from active_sockets
root_handler_cancelled_no_remove(s) ==
    /\ pc[s] \in {"get", "send"}
    /\ pc' = [pc EXCEPT ![s] = "close"]
    /\ UNCHANGED <<now, hb_wake, nrecords, recently_seen, active_sockets,
                   queue, exception, request, websocket_info, message_json,
                   written, joined, joined_hb, enqueued, dev_vars,
                   http_response, mux_stream, removed>>

\* the task is cancelled inside the try block, in client_queue.get() or in
\* ws.send_str (whose frame is then lost or taken, with the connection):
\* the CancelledError is caught, the finally clause runs and ws.close() is
\* awaited
root_handler_cancelled(s) ==
    /\ pc[s] \in {"get", "send"}
    /\ finally_remove(s)
    /\ IF RemoveRaises(s)
       THEN /\ pc' = [pc EXCEPT ![s] = "raised"]
            /\ exception' = [exception EXCEPT ![s] = "ValueError"]
       ELSE /\ pc' = [pc EXCEPT ![s] = "close"]
            /\ UNCHANGED exception
    /\ UNCHANGED <<now, hb_wake, nrecords, recently_seen, request, dev_vars,
                   http_response, mux_stream, removed>>

\* the task is cancelled outside the try block, in ws.prepare or in
\* ws.close: the CancelledError ends the task
root_handler_cancelled_outside(s) ==
    /\ pc[s] \in {"prepare", "close"}
    /\ pc' = [pc EXCEPT ![s] = "raised"]
    /\ exception' = [exception EXCEPT ![s] = "CancelledError"]
    /\ UNCHANGED <<now, hb_wake, nrecords, recently_seen, active_sockets,
                   queue, request, websocket_info, message_json, written,
                   joined, joined_hb, enqueued, dev_vars, http_response,
                   mux_stream, removed>>

\* ws.close() returns and the handler returns ws
root_handler_closed(s) ==
    /\ pc[s] = "close"
    /\ pc' = [pc EXCEPT ![s] = "done"]
    /\ UNCHANGED <<now, hb_wake, nrecords, recently_seen, active_sockets,
                   queue, exception, request, websocket_info, message_json,
                   written, joined, joined_hb, enqueued, dev_vars,
                   http_response, mux_stream, removed>>

\* ws.close() raises: the await stands outside any try block, so the
\* exception ends the task
root_handler_close_fails(s) ==
    /\ pc[s] = "close"
    /\ pc' = [pc EXCEPT ![s] = "raised"]
    /\ exception' = [exception EXCEPT ![s] = "Exception"]
    /\ UNCHANGED <<now, hb_wake, nrecords, recently_seen, active_sockets,
                   queue, request, websocket_info, message_json, written,
                   joined, joined_hb, enqueued, dev_vars, http_response,
                   mux_stream, removed>>

(* ----------------------------- dev_handler ---------------------------- *)
\* iter(self.recently_seen): the iterator remembers the deque's mutation
\* counter and its length
DequeIter ==
    [state |-> DequeState, counter |-> Len(recently_seen), index |-> 1]

\* one turn of "for message in self.recently_seen": the iterator's next()
\* raises RuntimeError when the deque was mutated since iter(), ends the loop
\* when nothing is left, and otherwise yields the message that json.dumps
\* turns into the text send_str starts on
dev_for_next(d, it) ==
    IF DequeState # it.state
    THEN /\ dev_pc' = [dev_pc EXCEPT ![d] = "raised"]
         /\ dev_exception' = [dev_exception EXCEPT ![d] = "RuntimeError"]
         /\ dev_it' = [dev_it EXCEPT ![d] = NoIterator]
         /\ dev_json' = [dev_json EXCEPT ![d] = NoJson]
    ELSE IF it.counter = 0
    THEN /\ dev_pc' = [dev_pc EXCEPT ![d] = "close"]
         /\ dev_it' = [dev_it EXCEPT ![d] = NoIterator]
         /\ dev_json' = [dev_json EXCEPT ![d] = NoJson]
         /\ UNCHANGED dev_exception
    ELSE IF ~JsonSerializable(recently_seen[it.index])
    THEN /\ dev_pc' = [dev_pc EXCEPT ![d] = "raised"]
         /\ dev_exception' = [dev_exception EXCEPT ![d] = "TypeError"]
         /\ dev_it' = [dev_it EXCEPT ![d] = NoIterator]
         /\ dev_json' = [dev_json EXCEPT ![d] = NoJson]
    ELSE /\ dev_pc' = [dev_pc EXCEPT ![d] = "send"]
         /\ dev_it' = [dev_it EXCEPT ![d] =
               [it EXCEPT !.counter = @ - 1, !.index = @ + 1]]
         /\ dev_json' = [dev_json EXCEPT ![d] =
               json_dumps(recently_seen[it.index])]
         /\ UNCHANGED dev_exception

\* a websocket request arrives at /develop (the plain-HTTP branch, a fixed
\* error document, is not modelled)
dev_handler_request(d) ==
    /\ dev_pc[d] = "idle"
    /\ d > 1 => dev_pc[d - 1] # "idle"
    /\ dev_pc' = [dev_pc EXCEPT ![d] = "prepare"]
    /\ UNCHANGED <<now, hb_wake, nrecords, recently_seen, live_vars,
                   dev_exception, dev_it, dev_json, dev_written, dev_start,
                   http_response, mux_stream, removed>>

\* ws.prepare returns and the for loop starts
dev_handler_prepared(d) ==
    /\ dev_pc[d] = "prepare"
    /\ dev_start' = [dev_start EXCEPT ![d] = recently_seen]
    /\ dev_for_next(d, DequeIter)
    /\ UNCHANGED <<now, hb_wake, nrecords, recently_seen, live_vars,
                   dev_written, http_response, mux_stream, removed>>

\* ws.send_str returns: the frame is with the transport, the loop goes on
dev_handler_sent(d) ==
    /\ dev_pc[d] = "send"
    /\ dev_written' = [dev_written EXCEPT ![d] = Append(@, dev_json[d])]
    /\ dev_for_next(d, dev_it[d])
    /\ UNCHANGED <<now, hb_wake, nrecords, recently_seen, live_vars, dev_start,
                   http_response, mux_stream, removed>>

\* ws.send_str raises (the transport is gone): the exception ends the task
dev_handler_send_fails(d) ==
    /\ dev_pc[d] = "send"
    /\ dev_pc' = [dev_pc EXCEPT ![d] = "raised"]
    /\ dev_exception' = [dev_exception EXCEPT ![d] = "ConnectionResetError"]
    /\ dev_it' = [dev_it EXCEPT ![d] = NoIterator]
    /\ dev_json' = [dev_json EXCEPT ![d] = NoJson]
    /\ UNCHANGED <<now, hb_wake, nrecords, recently_seen, live_vars,
                   dev_written, dev_start, http_response, mux_stream, removed>>

\* the task is cancelled in ws.send_str: the CancelledError is caught and
\* ws.close() is awaited
dev_handler_cancelled(d) ==
    /\ dev_pc[d] = "send"
    /\ dev_pc' = [dev_pc EXCEPT ![d] = "close"]
    /\ dev_it' = [dev_it EXCEPT ![d] = NoIterator]
    /\ dev_json' = [dev_json EXCEPT ![d] = NoJson]
    /\ UNCHANGED <<now, hb_wake, nrecords, recently_seen, live_vars,
                   dev_exception, dev_written, dev_start, http_response,
                   mux_stream, removed>>

\* the task is cancelled in ws.prepare or in ws.close, outside the try block
dev_handler_cancelled_outside(d) ==
    /\ dev_pc[d] \in {"prepare", "close"}
    /\ dev_pc' = [dev_pc EXCEPT ![d] = "raised"]
    /\ dev_exception' = [dev_exception EXCEPT ![d] = "CancelledError"]
    /\ UNCHANGED <<now, hb_wake, nrecords, recently_seen, live_vars, dev_it,
                   dev_json, dev_written, dev_start, http_response, mux_stream,
                   removed>>

\* ws.close() returns and the handler returns ws
dev_handler_closed(d) ==
    /\ dev_pc[d] = "close"
    /\ dev_pc' = [dev_pc EXCEPT ![d] = "done"]
    /\ UNCHANGED <<now, hb_wake, nrecords, recently_seen, live_vars,
                   dev_exception, dev_it, dev_json, dev_written, dev_start,
                   http_response, mux_stream, removed>>

(* ------------------------ latest.json, example.json ------------------- *)
\* json.dumps of a list of messages
RECURSIVE json_dumps_list(_)
json_dumps_list(messages) ==
    IF messages = <<>> THEN <<>>
    ELSE <<json_dumps(Head(messages))>> \o json_dumps_list(Tail(messages))

\* the text "{}"
EmptyObject == <<>>

\* latest.json listing the newest message first
latest_json_handler_newest_first ==
    /\ http_response' =
          [endpoint |-> "latest.json",
           body |-> <<"messages",
                      json_dumps_list([i \in 1..Len(recently_seen) |->
                         recently_seen[Len(recently_seen) + 1 - i]])>>]
    /\ UNCHANGED <<now, hb_wake, nrecords, recently_seen, live_vars, dev_vars,
                   mux_stream, removed>>

\* json.dumps({"messages": list(self.recently_seen)})
latest_json_handler ==
    /\ http_response' =
          [endpoint |-> "latest.json",
           body |-> <<"messages", json_dumps_list(recently_seen)>>]
    /\ UNCHANGED <<now, hb_wake, nrecords, recently_seen, live_vars, dev_vars,
                   mux_stream, removed>>

\* example.json taking list(self.recently_seen)[-1]
example_json_handler_last ==
    /\ http_response' =
          [endpoint |-> "example.json",
           body |-> IF recently_seen # <<>>
                    THEN json_dumps(recently_seen[Len(recently_seen)])
                    ELSE EmptyObject]
    /\ UNCHANGED <<now, hb_wake, nrecords, recently_seen, live_vars, dev_vars,
                   mux_stream, removed>>

\* json.dumps(list(self.recently_seen)[0]) when the deque is not empty,
\* the text "{}" otherwise
example_json_handler ==
    /\ http_response' =
          [endpoint |-> "example.json",
           body |-> IF recently_seen # <<>>
                    THEN json_dumps(recently_seen[1])
                    ELSE EmptyObject]
    /\ UNCHANGED <<now, hb_wake, nrecords, recently_seen, live_vars, dev_vars,
                   mux_stream, removed>>

(* ------------------------------- stats -------------------------------- *)
\* "connected_client_count": len(self.active_sockets)
connected_client_count == Len(active_sockets)

\* "{}-{}".format(client.external_ip, client.connection_time)
client_identifier(client) ==
    <<client.external_ip, "-", client.connection_time>>

\* pretty_date(connection_time): the time elapsed since, in words
pretty_date(connection_time) == <<now - connection_time, "ago">>

\* the dictionary stats_handler's loop builds: an assignment
\* clients[client_identifier] = {...} replaces what an earlier client with
\* the same identifier left there, so the last such client stays
stats_clients ==
    LET keys == {client_identifier(active_sockets[i]) :
                    i \in 1..Len(active_sockets)}
        last(k) == CHOOSE i \in 1..Len(active_sockets) :
                      /\ client_identifier(active_sockets[i]) = k
                      /\ \A j \in (i + 1)..Len(active_sockets) :
                            client_identifier(active_sockets[j]) # k
    IN [k \in keys |->
          LET client == active_sockets[last(k)]
          IN [ip_address |-> client.external_ip,
              conection_time |-> client.connection_time,
              connection_length |-> pretty_date(client.connection_time),
              channel |-> client.channel]]

\* a request for the statistics: the count and the dictionary, as JSON
stats_handler ==
    /\ http_response' =
          [endpoint |-> "stats",
           body |-> [connected_client_count |-> connected_client_count,
                     clients |-> stats_clients]]
    /\ UNCHANGED <<now, hb_wake, nrecords, recently_seen, live_vars, dev_vars,
                   mux_stream, removed>>

(* --------------------------- specifications --------------------------- *)
\* the live service: multiplexer, heartbeats and live sessions, on a clock
\* read once a heartbeat period
Next ==
    \/ mux_ctl_stream(MaxRecords, BOOLEAN)
    \/ ws_heartbeats
    \/ Tick(MaxTime, HeartbeatSleep)
    \/ \E s \in 1..MaxSessions :
         root_handler_request(s, RemoteAddresses, RequestedChannels)
    \/ \E s \in 1..MaxSessions : root_handler_prepared(s)
    \/ \E s \in 1..MaxSessions : root_handler_get(s)
    \/ \E s \in 1..MaxSessions : root_handler_sent(s)
    \/ \E s \in 1..MaxSessions : root_handler_send_fails(s)
    \/ \E s \in 1..MaxSessions : root_handler_cancelled(s)
    \/ \E s \in 1..MaxSessions : root_handler_cancelled_outside(s)
    \/ \E s \in 1..MaxSessions : root_handler_closed(s)

Spec == Init /\ [][Next]_vars

\* the live service over a longer run: more records and a finer clock, for
\* fewer sessions
NextStream ==
    \/ mux_ctl_stream(MaxStreamRecords, {TRUE})
    \/ ws_heartbeats
    \/ Tick(MaxStreamTime, StreamTickStep)
    \/ \E s \in 1..MaxStreamSessions :
         root_handler_request(s, RemoteAddresses, {"default"})
    \/ \E s \in 1..MaxStreamSessions : root_handler_prepared(s)
    \/ \E s \in 1..MaxStreamSessions : root_handler_get(s)
    \/ \E s \in 1..MaxStreamSessions : root_handler_sent(s)
    \/ \E s \in 1..MaxStreamSessions : root_handler_send_fails(s)
    \/ \E s \in 1..MaxStreamSessions : root_handler_cancelled(s)
    \/ \E s \in 1..MaxStreamSessions : root_handler_cancelled_outside(s)
    \/ \E s \in 1..MaxStreamSessions : root_handler_closed(s)

SpecStream == Init /\ [][NextStream]_vars

\* the replay buffer and the endpoints that read it
NextReplay ==
    \/ mux_ctl_stream(MaxReplayRecords, {TRUE})
    \/ latest_json_handler
    \/ example_json_handler

SpecReplay == Init /\ [][NextReplay]_vars

\* replay-only sessions beside the multiplexer
NextDev ==
    \/ mux_ctl_stream(MaxDevRecords, {TRUE})
    \/ \E d \in DevSessions : dev_handler_request(d)
    \/ \E d \in DevSessions : dev_handler_prepared(d)
    \/ \E d \in DevSessions : dev_handler_sent(d)
    \/ \E d \in DevSessions : dev_handler_send_fails(d)
    \/ \E d \in DevSessions : dev_handler_cancelled(d)
    \/ \E d \in DevSessions : dev_handler_cancelled_outside(d)
    \/ \E d \in DevSessions : dev_handler_closed(d)

SpecDev == Init /\ [][NextDev]_vars

\* the channel query parameter of the s-th client: the valid channels in
\* turn, so that any two clients in a row subscribe to different channels
ChannelOf(s) == valid_channels[((s - 1) % Len(valid_channels)) + 1]

\* the live service with clients of every valid channel
NextChannels ==
    \/ mux_ctl_stream(MaxRecords, {TRUE})
    \/ ws_heartbeats
    \/ Tick(MaxTime, HeartbeatSleep)
    \/ \E s \in 1..MaxSessions :
         root_handler_request(s, RemoteAddresses, {ChannelOf(s)})
    \/ \E s \in 1..MaxSessions : root_handler_prepared(s)
    \/ \E s \in 1..MaxSessions : root_handler_get(s)
    \/ \E s \in 1..MaxSessions : root_handler_sent(s)
    \/ \E s \in 1..MaxSessions : root_handler_send_fails(s)
    \/ \E s \in 1..MaxSessions : root_handler_cancelled(s)
    \/ \E s \in 1..MaxSessions : root_handler_cancelled_outside(s)
    \/ \E s \in 1..MaxSessions : root_handler_closed(s)

SpecChannels == Init /\ [][NextChannels]_vars

\* the remote addresses of the clients that ask for statistics
StatsAddresses == {"198.51.100.7", "203.0.113.9"}

\* live sessions that come and go, and the statistics endpoint
NextStats ==
    \/ Tick(MaxTime, HeartbeatSleep)
    \/ \E s \in 1..MaxSessions :
         root_handler_request(s, StatsAddresses, {ChannelOf(s)})
    \/ \E s \in 1..MaxSessions : root_handler_prepared(s)
    \/ \E s \in 1..MaxSessions : root_handler_cancelled(s)
    \/ \E s \in 1..MaxSessions : root_handler_closed(s)
    \/ stats_handler

SpecStats == Init /\ [][NextStats]_vars

\* the live service with an upstream feed that may fail
NextUpstream ==
    \/ mux_ctl_stream(MaxStreamRecords, {TRUE})
    \/ mux_ctl_stream_get_raises
    \/ ws_heartbeats
    \/ Tick(MaxTime, HeartbeatSleep)
    \/ \E s \in 1..MaxStreamSessions :
         root_handler_request(s, RemoteAddresses, {"default"})
    \/ \E s \in 1..MaxStreamSessions : root_handler_prepared(s)
    \/ \E s \in 1..MaxStreamSessions : root_handler_get(s)
    \/ \E s \in 1..MaxStreamSessions : root_handler_sent(s)
    \/ \E s \in 1..MaxStreamSessions : root_handler_cancelled(s)
    \/ \E s \in 1..MaxStreamSessions : root_handler_closed(s)

SpecUpstream == Init /\ [][NextUpstream]_vars

\* the clients the list operations are tried on: one per queue, address
\* and channel
RegistryItems ==
    {WebsocketClientInfo(ip, q, 0, ch) :
        ip \in StatsAddresses, q \in Sessions, ch \in {"default", "dns-only"}}

\* the lists of at most MaxRegistry clients, no client twice
RegistryLists ==
    UNION {{list \in [1..n -> RegistryItems] :
               \A i, j \in 1..n : list[i] = list[j] => i = j} :
           n \in 0..MaxRegistry}

\* active_sockets on its own: any list of clients, and the two list
\* operations the handlers use on it
InitRegistry ==
    /\ active_sockets \in RegistryLists
    /\ now = 0
    /\ hb_wake = HeartbeatSleep
    /\ nrecords = 0
    /\ recently_seen = <<>>
    /\ queue = [s \in Sessions |-> <<>>]
    /\ pc = [s \in Sessions |-> "idle"]
    /\ exception = [s \in Sessions |-> "None"]
    /\ request = [s \in Sessions |-> NoRequest]
    /\ websocket_info = [s \in Sessions |-> NoInfo]
    /\ message_json = [s \in Sessions |-> NoJson]
    /\ written = [s \in Sessions |-> <<>>]
    /\ joined = [s \in Sessions |-> 0]
    /\ joined_hb = [s \in Sessions |-> 0]
    /\ enqueued = [s \in Sessions |-> <<>>]
    /\ dev_pc = [d \in DevSessions |-> "idle"]
    /\ dev_exception = [d \in DevSessions |-> "None"]
    /\ dev_it = [d \in DevSessions |-> NoIterator]
    /\ dev_json = [d \in DevSessions |-> NoJson]
    /\ dev_written = [d \in DevSessions |-> <<>>]
    /\ dev_start = [d \in DevSessions |-> <<>>]
    /\ http_response = NoResponse
    /\ mux_stream = Pending
    /\ removed = NoRemove

NextRegistry ==
    \/ \E x \in RegistryItems : active_sockets_append(x)
    \/ \E x \in RegistryItems : active_sockets_remove(x)

SpecRegistry == InitRegistry /\ [][NextRegistry]_vars

\* the multiplexer beside sessions that drain their queues or do not
NextSlow ==
    \/ mux_ctl_stream(MaxStreamRecords, {TRUE})
    \/ \E s \in 1..MaxSessions :
         root_handler_request(s, RemoteAddresses, {"default"})
    \/ \E s \in 1..MaxSessions : root_handler_prepared(s)
    \/ \E s \in 1..MaxSessions : root_handler_get(s)
    \/ \E s \in 1..MaxSessions : root_handler_sent(s)
    \/ \E s \in 1..MaxSessions : root_handler_cancelled(s)
    \/ \E s \in 1..MaxSessions : root_handler_closed(s)

SpecSlow == Init /\ [][NextSlow]_vars

\* live sessions on transports that may refuse a write or a close
NextClose ==
    \/ mux_ctl_stream(MaxRecords, {TRUE})
    \/ \E s \in 1..MaxSessions :
         root_handler_request(s, RemoteAddresses, {"default"})
    \/ \E s \in 1..MaxSessions : root_handler_prepared(s)
    \/ \E s \in 1..MaxSessions : root_handler_get(s)
    \/ \E s \in 1..MaxSessions : root_handler_sent(s)
    \/ \E s \in 1..MaxSessions : root_handler_send_fails(s)
    \/ \E s \in 1..MaxSessions : root_handler_cancelled(s)
    \/ \E s \in 1..MaxSessions : root_handler_closed(s)
    \/ \E s \in 1..MaxSessions : root_handler_close_fails(s)

SpecClose == Init /\ [][NextClose]_vars

(* ------------------------------ claims -------------------------------- *)
InLoop(s) == pc[s] \in {"get", "send"}

Registered(s) == \E i \in 1..Len(active_sockets) : active_sockets[i].queue = s

\* everything put on the queue of s since it registered, as frames in order:
\* written, being written, still queued
Stream(s) ==
    written[s] \o (IF pc[s] = "send" THEN <<message_json[s]>> ELSE <<>>)
               \o json_dumps_list(queue[s])

IsCert(frame) == frame[2] = "certificate_update"
IsHeartbeat(frame) == frame[2] = "heartbeat"

\* the payloads (record numbers, timestamps) of the frames of one type
Payloads(frames, type) ==
    LET sel == SelectSeq(frames, LAMBDA f : f[2] = type)
    IN [i \in 1..Len(sel) |-> sel[i][4]]

\* the sequence a+1, ..., b
FromTo(a, b) == [i \in 1..(b - a) |-> a + i]

Min(a, b) == IF a < b THEN a ELSE b

(* C1: every subscriber still in its delivery loop has, in its stream      *)
(* (written, being written, queued), exactly the certificate_update        *)
(* envelopes of the records pulled since it registered, in arrival order,  *)
(* once each; heartbeats may lie between them.                             *)
C1_Delivery ==
    \A s \in Sessions :
       InLoop(s) => Payloads(Stream(s), "certificate_update")
                       = FromTo(joined[s], nrecords)

C1_Witness ==
    \E s \in Sessions :
       /\ InLoop(s)
       /\ joined[s] = 0
       /\ nrecords = 2
       /\ Payloads(written[s], "certificate_update") = <<1, 2>>
       /\ \E i \in 1..Len(written[s]) : IsHeartbeat(written[s][i])

(* C2: a subscriber is in active_sockets exactly while its session is in   *)
(* the delivery loop (registered in the step that ends the handshake,      *)
(* removed in the step that leaves the loop, whatever ended it), and it is *)
(* there once, as the session's own websocket_info.                        *)
C2_RegisteredIffInLoop ==
    /\ \A s \in Sessions : Registered(s) <=> InLoop(s)
    /\ \A i, j \in 1..Len(active_sockets) :
          active_sockets[i].queue = active_sockets[j].queue => i = j
    /\ \A i \in 1..Len(active_sockets) :
          active_sockets[i] = websocket_info[active_sockets[i].queue]

C2_Witness ==
    \E s, u \in Sessions :
       /\ exception[s] = "TypeError"
       /\ pc[u] = "close"
       /\ active_sockets = <<>>

(* C3: the step that cancels a session in its delivery loop removes it     *)
(* from active_sockets and lowers the statistics count by one; no step     *)
(* puts anything on the queue of a subscriber that is not registered; and  *)
(* every record broadcast puts the record on each registered queue.        *)
C3_CancelRemoves ==
    [][\A s \in Sessions :
         /\ (InLoop(s) /\ pc'[s] = "close") =>
               /\ ~Registered(s)'
               /\ connected_client_count' = connected_client_count - 1
         /\ ~Registered(s) => queue'[s] = <<>>
         /\ (Registered(s) /\ nrecords' # nrecords) =>
               /\ Len(queue'[s]) = Len(queue[s]) + 1
               /\ queue'[s][Len(queue'[s])].data.seq = nrecords'
      ]_vars

C3_Witness ==
    \E s, u \in Sessions :
       /\ pc[s] = "close"
       /\ InLoop(u)
       /\ connected_client_count = 1
       /\ queue[s] = <<>>
       /\ queue[u] # <<>>

(* C4: a subscriber that registered after K records holds none of those K  *)
(* records in its queue or among the frames written to it, and no          *)
(* heartbeat older than its registration: its queue holds only envelopes   *)
(* enqueued after it registered.                                           *)
C4_NoOldRecords ==
    \A s \in Sessions :
       /\ \A i \in 1..Len(queue[s]) :
             IF queue[s][i].message_type = "certificate_update"
             THEN queue[s][i].data.seq > joined[s]
             ELSE queue[s][i].timestamp >= websocket_info[s].connection_time
       /\ \A i \in 1..Len(Stream(s)) :
             IsCert(Stream(s)[i]) => Stream(s)[i][4] > joined[s]

C4_Witness ==
    \E s \in Sessions :
       /\ InLoop(s)
       /\ joined[s] >= 1
       /\ recently_seen # <<>>
       /\ \E i \in 1..Len(queue[s]) :
             queue[s][i].message_type = "certificate_update"

\* the frame of the certificate_update envelope of record number n
CertFrame(n) == <<"message_type", "certificate_update", "data", n>>

\* the frames of the last min(k, 25) of the first k records, oldest first
LastFrames(k) ==
    [i \in 1..Min(k, RecentlySeenMaxlen) |->
        CertFrame(k - Min(k, RecentlySeenMaxlen) + i)]

(* C5: recently_seen never holds more than 25 envelopes; it holds the last *)
(* min(K, 25) of the K records pulled, oldest first, so the insertion into *)
(* a full buffer dropped exactly the oldest: from 26 records on the first  *)
(* record is absent and the newest is present.                             *)
C5_ReplayBuffer ==
    /\ Len(recently_seen) <= RecentlySeenMaxlen
    /\ Len(recently_seen) = Min(nrecords, RecentlySeenMaxlen)
    /\ \A i \in 1..Len(recently_seen) :
          /\ recently_seen[i].message_type = "certificate_update"
          /\ recently_seen[i].data.seq = nrecords - Len(recently_seen) + i
    /\ nrecords > RecentlySeenMaxlen =>
          /\ \A i \in 1..Len(recently_seen) : recently_seen[i].data.seq # 1
          /\ recently_seen[Len(recently_seen)].data.seq = nrecords

C5_Witness ==
    /\ nrecords = RecentlySeenMaxlen + 1
    /\ Len(recently_seen) = RecentlySeenMaxlen
    /\ recently_seen[1].data.seq = 2
    /\ recently_seen[RecentlySeenMaxlen].data.seq = RecentlySeenMaxlen + 1

(* C6: a latest.json request made after K records answers with exactly the *)
(* last min(K, 25) certificate_update envelopes, oldest first and the most *)
(* recently inserted last.                                                 *)
C6_Latest ==
    [][latest_json_handler =>
          http_response'.body = <<"messages", LastFrames(nrecords)>>]_vars

C6_Witness ==
    /\ http_response.endpoint = "latest.json"
    /\ Len(http_response.body[2]) = RecentlySeenMaxlen
    /\ http_response.body[2][1] = CertFrame(2)
    /\ http_response.body[2][RecentlySeenMaxlen]
          = CertFrame(RecentlySeenMaxlen + 1)

(* C7 as claimed: an example.json request answers {} when no record has    *)
(* arrived and otherwise with the most recently inserted envelope.         *)
C7_ExampleMostRecent ==
    [][example_json_handler =>
          http_response'.body =
             IF nrecords = 0 THEN EmptyObject ELSE CertFrame(nrecords)]_vars

(* C7 as amended: an example.json request answers {} when no record has    *)
(* arrived and otherwise with the oldest envelope still in recently_seen,  *)
(* the first of the last min(K, 25) records.                               *)
C7_ExampleOldest ==
    [][example_json_handler =>
          http_response'.body =
             IF nrecords = 0 THEN EmptyObject
             ELSE CertFrame(nrecords - Min(nrecords, RecentlySeenMaxlen) + 1)
      ]_vars

C7_Witness ==
    /\ http_response.endpoint = "example.json"
    /\ http_response.body = CertFrame(2)
    /\ nrecords = RecentlySeenMaxlen + 1

(* C8: a subscribe request whose channel is not in valid_channels ends in  *)
(* HTTPBadRequest in the step it arrives, leaving active_sockets, every    *)
(* queue, every websocket_info and recently_seen as they were; no client   *)
(* with such a channel is ever registered.                                 *)
C8_InvalidChannelRejected ==
    /\ [][\A s \in Sessions :
            (pc[s] = "idle" /\ pc'[s] # "idle"
               /\ ~InList(request'[s].channel, valid_channels)) =>
                  /\ pc'[s] = "raised"
                  /\ exception'[s] = "HTTPBadRequest"
                  /\ UNCHANGED <<active_sockets, queue, websocket_info,
                                 recently_seen>>
         ]_vars
    /\ [](\A i \in 1..Len(active_sockets) :
             InList(active_sockets[i].channel, valid_channels))
    /\ [](\A s \in Sessions :
             exception[s] = "HTTPBadRequest" =>
                /\ pc[s] = "raised"
                /\ ~Registered(s)
                /\ websocket_info[s] = NoInfo
                /\ queue[s] = <<>>)

C8_Witness ==
    \E s, u \in Sessions :
       /\ exception[s] = "HTTPBadRequest"
       /\ request[s].channel = "bogus"
       /\ InLoop(u)
       /\ queue[u] # <<>>
       /\ recently_seen # <<>>
       /\ connected_client_count = 1

\* the multiples of HeartbeatSleep from lo to hi
Beats(lo, hi) == {t \in lo..hi : t % HeartbeatSleep = 0}

(* C9: a subscriber registered at time c holds, at time now, one heartbeat *)
(* for every multiple of 10 strictly between c and now, each once and in   *)
(* order, and none for any other time (the rounds due at c and at now      *)
(* themselves may or may not have included it), whether or not records     *)
(* arrived; registered at 0 with no record, it holds exactly the two       *)
(* heartbeats of times 10 and 20 at time 25.                               *)
C9_Heartbeats ==
    \A s \in Sessions :
       InLoop(s) =>
          LET beats == Payloads(Stream(s), "heartbeat")
              c == websocket_info[s].connection_time
          IN /\ \A i \in 1..(Len(beats) - 1) : beats[i] < beats[i + 1]
             /\ Beats(c + 1, now - 1) \subseteq {beats[i] : i \in 1..Len(beats)}
             /\ {beats[i] : i \in 1..Len(beats)} \subseteq Beats(c, now)
             /\ hb_wake % HeartbeatSleep = 0
             /\ now <= hb_wake /\ hb_wake <= now + HeartbeatSleep
             /\ (c = 0 /\ now = 25 /\ nrecords = joined[s]) =>
                   Stream(s) = <<json_dumps(HeartbeatPacket(10)),
                                 json_dumps(HeartbeatPacket(20))>>

C9_Witness ==
    \E s \in Sessions :
       /\ InLoop(s)
       /\ websocket_info[s].connection_time = 0
       /\ now = 25
       /\ nrecords = 0
       /\ queue[s] = <<HeartbeatPacket(10), HeartbeatPacket(20)>>

(* C10 as claimed: a replay-only session that is neither cancelled nor     *)
(* refused by its transport leaves its for loop only to close, having      *)
(* written every envelope that was in recently_seen when the loop began,   *)
(* once each and in arrival order.                                         *)
C10_ReplayDumpCompletes ==
    [][\A d \in DevSessions :
          ((dev_handler_prepared(d) \/ dev_handler_sent(d))
              /\ dev_pc'[d] # "send") =>
                 /\ dev_pc'[d] = "close"
                 /\ dev_written'[d] = json_dumps_list(dev_start'[d])
      ]_vars

\* the event loop runs every task that is ready, and a transport that stays
\* connected takes the frame it was given
FairSpecStream ==
    /\ SpecStream
    /\ \A s \in Sessions : WF_vars(root_handler_get(s))
    /\ \A s \in Sessions : WF_vars(root_handler_sent(s))

(* C1, delivery: under FairSpecStream every record pulled while a          *)
(* subscriber is registered is in time written to its transport, unless    *)
(* its session leaves the delivery loop first.                             *)
C1_Delivered ==
    \A s \in Sessions : \A k \in 1..MaxStreamRecords :
       (InLoop(s) /\ joined[s] < k /\ k <= nrecords)
          ~> (~InLoop(s)
                \/ \E i \in 1..Len(written[s]) : written[s][i] = CertFrame(k))

\* the session leaves its delivery loop in this step
LeavesLoop(s) == InLoop(s) /\ ~InLoop(s)'

\* this step is a record broadcast or a heartbeat round
IsRound == nrecords' # nrecords \/ hb_wake' # hb_wake

(* C11: the step in which one session leaves its delivery loop (by a       *)
(* failed write, a cancellation or a serialization error) changes nothing  *)
(* of any other session: the others stay registered, at the same place,    *)
(* with the same queue; it leaves the multiplexer task, the heartbeat      *)
(* timer and recently_seen as they were; and every later record broadcast  *)
(* and heartbeat round still puts its envelope on each registered queue.   *)
C11_FailureIsLocal ==
    [][/\ \A s \in Sessions :
            LeavesLoop(s) =>
               /\ \A u \in Sessions \ {s} :
                     /\ Registered(u)' = Registered(u)
                     /\ queue'[u] = queue[u]
                     /\ enqueued'[u] = enqueued[u]
                     /\ pc'[u] = pc[u]
                     /\ exception'[u] = exception[u]
                     /\ websocket_info'[u] = websocket_info[u]
               /\ UNCHANGED <<mux_stream, hb_wake, nrecords, recently_seen>>
       /\ IsRound =>
            \A u \in Sessions :
               Registered(u) =>
                  /\ Registered(u)'
                  /\ Len(queue'[u]) = Len(queue[u]) + 1
                  /\ SubSeq(queue'[u], 1, Len(queue[u])) = queue[u]
      ]_vars

C11_Witness ==
    \E s, u \in Sessions :
       /\ exception[s] = "ConnectionResetError"
       /\ ~Registered(s)
       /\ Registered(u)
       /\ InLoop(u)
       /\ Len(enqueued[u]) = 2
       /\ \E i \in 1..Len(written[u]) : IsCert(written[u][i])

\* s is a prefix of t
IsPrefix(s, t) == Len(s) <= Len(t) /\ s = SubSeq(t, 1, Len(s))

(* C12: the frames written to a session's transport are at all times a     *)
(* prefix of the frames of the messages put on its queue; the message      *)
(* being written is the next one after them and the queue holds the rest,  *)
(* so nothing is written twice, out of order or again after a failure; and *)
(* the only step that writes is the return of send_str inside the loop,    *)
(* which adds the one frame in flight.                                     *)
C12_WrittenPrefix ==
    /\ [](\A s \in Sessions :
            LET frames == json_dumps_list(enqueued[s])
            IN /\ IsPrefix(written[s], frames)
               /\ pc[s] = "send" =>
                     /\ Len(written[s]) < Len(frames)
                     /\ message_json[s] = frames[Len(written[s]) + 1]
               /\ InLoop(s) => Stream(s) = frames
               /\ ~InLoop(s) => written[s] = <<>>)
    /\ [][\A s \in Sessions :
            /\ written'[s] # written[s] =>
                  \/ LeavesLoop(s) /\ written'[s] = <<>>
                  \/ /\ pc[s] = "send" /\ pc'[s] = "get"
                     /\ written'[s] = Append(written[s], message_json[s])
            /\ (InLoop(s) /\ InLoop(s)') => IsPrefix(enqueued[s], enqueued'[s])
         ]_vars

C12_Witness ==
    \E s \in Sessions :
       /\ pc[s] = "send"
       /\ Len(written[s]) = 2
       /\ Len(enqueued[s]) = 4
       /\ IsCert(written[s][1])
       /\ IsHeartbeat(written[s][2])
       /\ queue[s] # <<>>

\* s is a suffix of t
IsSuffix(s, t) ==
    Len(s) <= Len(t) /\ s = SubSeq(t, Len(t) - Len(s) + 1, Len(t))

\* both sessions registered between the same two rounds (record broadcasts
\* and heartbeat rounds)
SameInterval(s, u) == joined[s] = joined[u] /\ joined_hb[s] = joined_hb[u]

(* C13: two subscribers of different valid channels that registered        *)
(* between the same two rounds and are both still registered have had the  *)
(* same messages put on their queues, in the same order; of two that       *)
(* registered at different times, the later one has had exactly the last   *)
(* messages of the earlier one; and every round puts the same message on   *)
(* both queues.                                                            *)
C13_ChannelBlind ==
    /\ [](\A s, u \in Sessions :
            (InLoop(s) /\ InLoop(u)
               /\ websocket_info[s].channel # websocket_info[u].channel) =>
                  /\ SameInterval(s, u) => enqueued[s] = enqueued[u]
                  /\ \/ IsSuffix(enqueued[s], enqueued[u])
                     \/ IsSuffix(enqueued[u], enqueued[s])
                  /\ (joined[s] <= joined[u] /\ joined_hb[s] <= joined_hb[u])
                        => IsSuffix(enqueued[u], enqueued[s]))
    /\ [][\A s, u \in Sessions :
            (IsRound /\ Registered(s) /\ Registered(u)) =>
               /\ Len(enqueued'[s]) = Len(enqueued[s]) + 1
               /\ Len(enqueued'[u]) = Len(enqueued[u]) + 1
               /\ enqueued'[s][Len(enqueued'[s])]
                     = enqueued'[u][Len(enqueued'[u])]
         ]_vars

C13_Witness ==
    \E s, u \in Sessions :
       /\ InLoop(s) /\ InLoop(u)
       /\ websocket_info[s].channel = "default"
       /\ websocket_info[u].channel = "dns-only"
       /\ SameInterval(s, u)
       /\ Len(enqueued[s]) = 2
       /\ enqueued[s][1].message_type = "certificate_update"
       /\ enqueued[s][2].message_type = "heartbeat"
       /\ enqueued[u] = enqueued[s]

(* C14 as claimed: every answer of the statistics endpoint holds one       *)
(* record for each registered subscriber, with that subscriber's address,  *)
(* connect time and channel, and the count of registered subscribers, so   *)
(* the number of records equals the count, also when two subscribers share *)
(* address and connect time.                                               *)
C14_StatsPerSubscriber ==
    [][stats_handler =>
          LET body == http_response'.body
          IN /\ body.connected_client_count = Len(active_sockets)
             /\ Cardinality(DOMAIN body.clients) = body.connected_client_count
             /\ \A i \in 1..Len(active_sockets) :
                   \E k \in DOMAIN body.clients :
                      /\ body.clients[k].ip_address
                            = active_sockets[i].external_ip
                      /\ body.clients[k].conection_time
                            = active_sockets[i].connection_time
                      /\ body.clients[k].channel = active_sockets[i].channel
      ]_vars

(* C15: when the pull from the upstream feed raises, the multiplexer task  *)
(* is done and holds the exception (its failure can be read from           *)
(* self.mux_stream); from then on it stays so, no record is pulled or      *)
(* appended to recently_seen, and the only messages still put on a queue   *)
(* are heartbeats.                                                         *)
C15_UpstreamFailure ==
    /\ [](mux_stream.done => mux_stream.exception # "None")
    /\ [][(~mux_stream.done /\ mux_stream'.done) =>
            /\ mux_stream'.exception = "Exception"
            /\ UNCHANGED <<nrecords, recently_seen, queue, active_sockets>>
         ]_vars
    /\ [][mux_stream.done =>
            /\ mux_stream' = mux_stream
            /\ nrecords' = nrecords
            /\ recently_seen' = recently_seen
            /\ \A s \in Sessions :
                  Len(enqueued'[s]) > Len(enqueued[s]) =>
                     enqueued'[s][Len(enqueued'[s])].message_type
                        = "heartbeat"
         ]_vars

C15_Witness ==
    \E s \in Sessions :
       /\ mux_stream = Failed("Exception")
       /\ nrecords = 1
       /\ InLoop(s)
       /\ joined[s] = 0
       /\ Len(enqueued[s]) = 2
       /\ enqueued[s][1].message_type = "certificate_update"
       /\ enqueued[s][2].message_type = "heartbeat"
       /\ Len(recently_seen) = 1

Count(seq, Test(_)) == Len(SelectSeq(seq, Test))

(* C17: a record broadcast or a heartbeat round is one step: active_sockets *)
(* and every session's position are the same before and after it, each     *)
(* registered subscriber gets the round's one message appended to what was  *)
(* put on its queue before, every subscriber the same message, and no       *)
(* other queue changes; hence a subscriber in its loop holds each record    *)
(* pulled since it registered exactly once and no heartbeat twice,          *)
(* whatever other sessions registered or left in between.                   *)
C17_RoundIsAtomic ==
    /\ [][IsRound =>
            /\ active_sockets' = active_sockets
            /\ pc' = pc
            /\ \E message \in {DataPacket([seq |-> nrecords',
                                            serializable |-> TRUE]),
                                HeartbeatPacket(now)} :
                  \A s \in Sessions :
                     IF Registered(s)
                     THEN /\ enqueued'[s] = Append(enqueued[s], message)
                          /\ queue'[s] = Append(queue[s], message)
                     ELSE /\ enqueued'[s] = enqueued[s]
                          /\ queue'[s] = queue[s]
         ]_vars
    /\ [](\A s \in Sessions :
            InLoop(s) =>
               /\ \A n \in (joined[s] + 1)..nrecords :
                     Count(enqueued[s],
                           LAMBDA m : m = DataPacket([seq |-> n,
                                         serializable |-> TRUE])) = 1
               /\ \A i, j \in 1..Len(enqueued[s]) :
                     enqueued[s][i] = enqueued[s][j] => i = j)

C17_Witness ==
    \E s, u \in Sessions :
       /\ InLoop(s)
       /\ InLoop(u)
       /\ active_sockets[1].queue = s
       /\ enqueued[s] = <<DataPacket([seq |-> 1, serializable |-> TRUE]),
                          HeartbeatPacket(10)>>
       /\ enqueued[u] = <<HeartbeatPacket(10)>>

\* the event loop runs the multiplexer when the feed has a record; no
\* session is required ever to take a step
FairSpecSlow ==
    SpecSlow /\ WF_vars(mux_ctl_stream(MaxStreamRecords, {TRUE}))

(* C18: as long as the feed has a record and the multiplexer task is      *)
(* alive, its next pass can run, however many messages lie undrained in    *)
(* any subscriber's queue; the pass appends the record to recently_seen,   *)
(* puts it on every registered queue, those of stalled subscribers         *)
(* included, and leaves the task ready for the next pull; and under        *)
(* FairSpecSlow, where no session need ever take a step, every record of   *)
(* the feed is pulled in the end.                                          *)
C18_MuxNeverBlocked ==
    /\ []((~mux_stream.done /\ nrecords < MaxStreamRecords) =>
             ENABLED mux_ctl_stream(MaxStreamRecords, {TRUE}))
    /\ [][nrecords' # nrecords =>
            LET data_packet == DataPacket([seq |-> nrecords + 1,
                                           serializable |-> TRUE])
            IN /\ nrecords' = nrecords + 1
               /\ recently_seen' = DequeAppend(recently_seen, data_packet)
               /\ \A s \in Sessions :
                     Registered(s) => queue'[s] = Append(queue[s], data_packet)
               /\ mux_stream' = mux_stream
               /\ ~mux_stream'.done
         ]_vars
    /\ <>(nrecords = MaxStreamRecords)

C18_Witness ==
    \E s, u \in Sessions :
       /\ pc[s] = "get"
       /\ written[s] = <<>>
       /\ Len(queue[s]) = 2
       /\ InLoop(u)
       /\ written[u] = <<CertFrame(1), CertFrame(2)>>
       /\ nrecords = 2
       /\ Len(recently_seen) = 2

(* C19 as claimed: a session that leaves its delivery loop, by             *)
(* cancellation or by a failed write, is removed from active_sockets in    *)
(* that step and goes on to ws.close(); and whatever ws.close() does, the  *)
(* session then ends as done, with no exception.                           *)
C19_CloseAfterLoop ==
    [][\A s \in Sessions :
          /\ LeavesLoop(s) =>
                /\ ~Registered(s)'
                /\ pc'[s] = "close"
          /\ (pc[s] = "close" /\ pc'[s] # "close") =>
                /\ pc'[s] = "done"
                /\ exception'[s] = "None"
      ]_vars

\* C19, the part that holds: a session that leaves its delivery loop is
\* removed from active_sockets in that step, whatever made it leave
C19_DeregistersFirst ==
    [][\A s \in Sessions : LeavesLoop(s) => ~Registered(s)']_vars

\* C19, the close attempt after a failed write
C19_ClosesAfterWriteFailure ==
    [][\A s \in Sessions :
          (pc[s] = "send" /\ LeavesLoop(s)) => pc'[s] = "close"]_vars

\* C19, the failure of the close attempt
C19_CloseFailureSwallowed ==
    [][\A s \in Sessions :
          (pc[s] = "close" /\ pc'[s] # "close") => pc'[s] = "done"]_vars

\* two clients with the same address, connect time and channel
SameClient(a, b) ==
    /\ a.external_ip = b.external_ip
    /\ a.connection_time = b.connection_time
    /\ a.channel = b.channel

(* C20: the step in which a session leaves its delivery loop takes exactly *)
(* that session's own entry out of active_sockets and keeps the others in  *)
(* their order, also when another registered subscriber has the same       *)
(* address, connect time and channel: that one stays registered with its   *)
(* queue untouched and gets every later round's message, while the queue   *)
(* of a session that is not registered never gets anything.                *)
C20_RemovesOwnEntry ==
    /\ [][\A s \in Sessions :
            LeavesLoop(s) =>
               /\ active_sockets'
                     = SelectSeq(active_sockets, LAMBDA c : c.queue # s)
               /\ Len(active_sockets') = Len(active_sockets) - 1
               /\ \A u \in Sessions \ {s} :
                     (Registered(u)
                        /\ SameClient(websocket_info[u], websocket_info[s]))
                     => /\ Registered(u)'
                        /\ websocket_info'[u] = websocket_info[u]
                        /\ queue'[u] = queue[u]
         ]_vars
    /\ [][\A u \in Sessions :
            /\ (IsRound /\ Registered(u)) =>
                  Len(enqueued'[u]) = Len(enqueued[u]) + 1
            /\ ~Registered(u) => queue'[u] = <<>>
         ]_vars
    /\ [](\A s \in Sessions :
            ~Registered(s) => queue[s] = <<>> /\ enqueued[s] = <<>>)

C20_Witness ==
    \E s, u \in Sessions :
       /\ s < u
       /\ request[s] = request[u]
       /\ now = 0
       /\ pc[u] = "close"
       /\ InLoop(s)
       /\ active_sockets = <<websocket_info[s]>>
       /\ websocket_info[s].connection_time = 0
       /\ nrecords = 1
       /\ Len(enqueued[s]) = 1

=============================================================================
